---- MODULE Spec2Model ----
(***************************************************************************)
(* Queue<ValueType> of StanfordCPPLib/queue.h: a FIFO container kept in a  *)
(* ring buffer (a Vector plus head, tail, count and capacity), with its    *)
(* structural equality and its text form `{e0, e1, ...}`.  ValueType is    *)
(* int.  Vector indices are 0-based in the code and 1-based in a TLA+      *)
(* sequence; VGet and VSet do the shift.                                   *)
(***************************************************************************)
EXTENDS Integers, Sequences, FiniteSets

\* ------------------------------------------------------------------ bounds
\* Enqueues accepted since the last clear.
MaxEnq == 11
\* Length of the text handed to operator >>.
MaxInput == 5
\* Iterations of the read loop of operator >> that are followed.
MaxParseLoop == 3
\* Enqueues accepted since the last clear where the ring itself is followed:
\* enough for the store to grow twice, the second time with head away from 0.
MaxRing == 22

\* Values a client enqueues.
Values == {1, 2}
\* Characters of the text handed to operator >>.
Alphabet == {"{", "}", ",", " ", "1", "2"}

\* ---------------------------------------------------------------- constants
INITIAL_CAPACITY == 10
\* ValueType() for int: what Vector<int>(n) fills its n elements with.
DefaultValue == 0
\* The value field of an operation that returns nothing or threw.
NoValue == -1
\* char ch = '\0'
NUL == "NUL"
\* What the local `ValueType value;` may hold when the extraction stores
\* nothing: zero or something else.
Uninitialized == {DefaultValue, 1}
\* The two faults: error() called on an empty queue, and by operator >>.
EmptyQueueError == "EmptyQueueError"
ParseFormatError == "ParseFormatError"
NoError == "none"

VARIABLES
    q,        \* the queue: [ringBuffer, count, capacity, head, tail]
    enqLog,   \* history: the values enqueued since the last clear
    deqLog,   \* history: the values dequeue has returned since the last clear
    op,       \* the last operation called
    ret,      \* its return value (bool as 0/1), NoValue if none
    err,      \* the error it raised, NoError if none
    out,      \* the text or the STL container it produced
    other,    \* the second operand of equals: [passed, left], before and after
    ps        \* operator >> in progress: [is, ch, pc, cleared, n, prior]

vars == <<q, enqLog, deqLog, op, ret, err, out, other, ps>>

\* ------------------------------------------------------------------ Vector
\* Vector<ValueType>(n): n default-constructed elements.
NewVector(n) == [i \in 1..n |-> DefaultValue]
\* vec[i] read (0-based).
VGet(vec, i) == vec[i + 1]
\* vec[i] = x
VSet(vec, i, x) == [vec EXCEPT ![i + 1] = x]

\* ------------------------------------------------------------------- Queue
\* What a call leaves: the queue afterwards, the value returned, the error.
Outcome(qu, r, e) == [q |-> qu, ret |-> r, err |-> e]

\* error(msg): throws, so the caller's remaining statements do not run.
error(qu, kind) == Outcome(qu, NoValue, kind)

\* bool as an int.
BoolRet(b) == IF b THEN 1 ELSE 0

\* clear keeping the capacity the queue has grown to.
clearKeepsCapacity(qu) ==
    [ringBuffer |-> NewVector(qu.capacity),
     count |-> 0,
     capacity |-> qu.capacity,
     head |-> 0,
     tail |-> 0]

\* Queue::clear
clear(qu) ==
    [ringBuffer |-> NewVector(INITIAL_CAPACITY),
     count |-> 0,
     capacity |-> INITIAL_CAPACITY,
     head |-> 0,
     tail |-> 0]

\* Queue::Queue
NewQueue ==
    clear([ringBuffer |-> <<>>, count |-> 0, capacity |-> 0, head |-> 0, tail |-> 0])

\* ExpandCopyLoop reading copy[i]: right only while head is 0.
RECURSIVE ExpandCopyLoopFromZero(_, _, _, _)
ExpandCopyLoopFromZero(qu, copy, fresh, i) ==
    IF i < qu.count
    THEN ExpandCopyLoopFromZero(qu, copy, VSet(fresh, i, VGet(copy, i)), i + 1)
    ELSE fresh

\* ExpandCopyLoop keeping every value in the slot it had in the old store.
RECURSIVE ExpandCopyLoopInPlace(_, _, _, _)
ExpandCopyLoopInPlace(qu, copy, fresh, i) ==
    IF i < qu.count
    THEN ExpandCopyLoopInPlace(qu, copy,
                               VSet(fresh, (qu.head + i) % qu.capacity,
                                    VGet(copy, (qu.head + i) % qu.capacity)),
                               i + 1)
    ELSE fresh

\* The loop of expandRingBufferCapacity: ringBuffer[i] = copy[(head + i) % capacity]
RECURSIVE ExpandCopyLoop(_, _, _, _)
ExpandCopyLoop(qu, copy, fresh, i) ==
    IF i < qu.count
    THEN ExpandCopyLoop(qu, copy,
                        VSet(fresh, i, VGet(copy, (qu.head + i) % qu.capacity)),
                        i + 1)
    ELSE fresh

\* expandRingBufferCapacity allocating the larger store, capacity left as it was.
expandKeepsCapacity(qu) ==
    LET copy == qu.ringBuffer
    IN  [ringBuffer |-> ExpandCopyLoop(qu, copy, NewVector(2 * qu.capacity), 0),
         count |-> qu.count,
         capacity |-> qu.capacity,
         head |-> 0,
         tail |-> qu.count]

\* expandRingBufferCapacity leaving tail where it stood in the old store.
expandKeepsTail(qu) ==
    LET copy == qu.ringBuffer
    IN  [ringBuffer |-> ExpandCopyLoop(qu, copy, NewVector(2 * qu.capacity), 0),
         count |-> qu.count,
         capacity |-> qu.capacity * 2,
         head |-> 0,
         tail |-> qu.tail]

\* Queue::expandRingBufferCapacity
expandRingBufferCapacity(qu) ==
    LET copy == qu.ringBuffer
    IN  [ringBuffer |-> ExpandCopyLoop(qu, copy, NewVector(2 * qu.capacity), 0),
         count |-> qu.count,
         capacity |-> qu.capacity * 2,
         head |-> 0,
         tail |-> qu.count]

\* enqueue taking the new count from the new tail: right only while head is 0.
enqueueCountFromTail(qu, value) ==
    LET g == IF qu.count >= qu.capacity - 1 THEN expandRingBufferCapacity(qu) ELSE qu
    IN  [g EXCEPT !.ringBuffer = VSet(g.ringBuffer, g.tail, value),
                  !.tail = (g.tail + 1) % g.capacity,
                  !.count = g.tail + 1]

\* enqueue growing the store only once every slot is taken.
enqueueGrowsWhenFull(qu, value) ==
    LET g == IF qu.count >= qu.capacity THEN expandRingBufferCapacity(qu) ELSE qu
    IN  [g EXCEPT !.ringBuffer = VSet(g.ringBuffer, g.tail, value),
                  !.tail = (g.tail + 1) % g.capacity,
                  !.count = g.count + 1]

\* enqueue growing the store one value early, with two slots still unused.
enqueueGrowsEarly(qu, value) ==
    LET g == IF qu.count >= qu.capacity - 2 THEN expandRingBufferCapacity(qu) ELSE qu
    IN  [g EXCEPT !.ringBuffer = VSet(g.ringBuffer, g.tail, value),
                  !.tail = (g.tail + 1) % g.capacity,
                  !.count = g.count + 1]

\* Queue::enqueue
enqueue(qu, value) ==
    LET g == IF qu.count >= qu.capacity - 1 THEN expandRingBufferCapacity(qu) ELSE qu
    IN  [g EXCEPT !.ringBuffer = VSet(g.ringBuffer, g.tail, value),
                  !.tail = (g.tail + 1) % g.capacity,
                  !.count = g.count + 1]

\* dequeue going on after reporting the empty queue.
dequeueUnguarded(qu) ==
    Outcome([qu EXCEPT !.head = (qu.head + 1) % qu.capacity,
                       !.count = qu.count - 1],
            VGet(qu.ringBuffer, qu.head),
            IF qu.count = 0 THEN EmptyQueueError ELSE NoError)

\* dequeue giving the store back once the last value has left.
dequeueShrinks(qu) ==
    IF qu.count = 0
    THEN error(qu, EmptyQueueError)
    ELSE Outcome(IF qu.count = 1
                 THEN clear(qu)
                 ELSE [qu EXCEPT !.head = (qu.head + 1) % qu.capacity,
                                 !.count = qu.count - 1],
                 VGet(qu.ringBuffer, qu.head), NoError)

\* dequeue returning the value and counting it off, head left where it is.
dequeueHeadStays(qu) ==
    IF qu.count = 0
    THEN error(qu, EmptyQueueError)
    ELSE Outcome([qu EXCEPT !.count = qu.count - 1],
                 VGet(qu.ringBuffer, qu.head), NoError)

\* Queue::dequeue
dequeue(qu) ==
    IF qu.count = 0
    THEN error(qu, EmptyQueueError)
    ELSE Outcome([qu EXCEPT !.head = (qu.head + 1) % qu.capacity,
                            !.count = qu.count - 1],
                 VGet(qu.ringBuffer, qu.head), NoError)

\* Queue::front
front(qu) ==
    IF qu.count = 0
    THEN error(qu, EmptyQueueError)
    ELSE Outcome(qu, VGet(qu.ringBuffer, qu.head), NoError)

\* back reading the slot at tail, the one the next enqueue writes.
backAtTail(qu) ==
    IF qu.count = 0
    THEN error(qu, EmptyQueueError)
    ELSE Outcome(qu, VGet(qu.ringBuffer, qu.tail % qu.capacity), NoError)

\* Queue::back
back(qu) ==
    IF qu.count = 0
    THEN error(qu, EmptyQueueError)
    ELSE Outcome(qu, VGet(qu.ringBuffer, (qu.tail + qu.capacity - 1) % qu.capacity),
                 NoError)

\* Queue::peek
peek(qu) ==
    IF qu.count = 0
    THEN error(qu, EmptyQueueError)
    ELSE Outcome(qu, VGet(qu.ringBuffer, qu.head), NoError)

\* Queue::isEmpty
isEmpty(qu) == qu.count = 0

\* Queue::size
size(qu) == qu.count

\* Queue<ValueType> copy = queue: the member-wise copy, the Vector copied deep.
CopyQueue(qu) == qu

\* The loop of equals, on the two copies; the copies are returned as it leaves them.
RECURSIVE EqualsLoop(_, _)
EqualsLoop(copy1, copy2) ==
    IF ~isEmpty(copy1) /\ ~isEmpty(copy2)
    THEN LET d1 == dequeue(copy1)
             d2 == dequeue(copy2)
         IN  IF ~(d1.ret = d2.ret)
             THEN [ret |-> FALSE, copy1 |-> d1.q, copy2 |-> d2.q]
             ELSE EqualsLoop(d1.q, d2.q)
    ELSE [ret |-> isEmpty(copy1) = isEmpty(copy2), copy1 |-> copy1, copy2 |-> copy2]

\* equals comparing the sizes alone.
equalsSizeOnly(this, queue2, same) ==
    [ret |-> same \/ size(this) = size(queue2), this |-> this, queue2 |-> queue2]

\* equals with copy1 and copy2 bound by reference: the loop drains the operands.
equalsDrainsOperands(this, queue2, same) ==
    IF same
    THEN [ret |-> TRUE, this |-> this, queue2 |-> queue2]
    ELSE IF size(this) # size(queue2)
    THEN [ret |-> FALSE, this |-> this, queue2 |-> queue2]
    ELSE LET r == EqualsLoop(this, queue2)
         IN  [ret |-> r.ret, this |-> r.copy1, queue2 |-> r.copy2]

\* Queue::equals. same: queue2 is this very object. Returns the result and
\* both operands as the call leaves them.
equals(this, queue2, same) ==
    IF same
    THEN [ret |-> TRUE, this |-> this, queue2 |-> queue2]
    ELSE IF size(this) # size(queue2)
    THEN [ret |-> FALSE, this |-> this, queue2 |-> queue2]
    ELSE LET copy1 == CopyQueue(this)
             copy2 == CopyQueue(queue2)
             r == EqualsLoop(copy1, copy2)
         IN  [ret |-> r.ret, this |-> this, queue2 |-> queue2]

\* Queue::operator ==
OpEq(this, queue2, same) == equals(this, queue2, same)

\* Queue::operator !=
OpNe(this, queue2, same) ==
    LET e == equals(this, queue2, same)
    IN  [ret |-> ~e.ret, this |-> e.this, queue2 |-> e.queue2]

\* The loops of toStlDeque and toStlQueue: result.push_back(copy.dequeue())
RECURSIVE DrainLoop(_, _)
DrainLoop(copy, result) ==
    IF ~isEmpty(copy)
    THEN LET d == dequeue(copy) IN DrainLoop(d.q, Append(result, d.ret))
    ELSE [result |-> result, copy |-> copy]

\* Queue::toStlDeque
toStlDeque(qu) ==
    LET copy == CopyQueue(qu) IN [out |-> DrainLoop(copy, <<>>).result, q |-> qu]

\* Queue::toStlQueue
toStlQueue(qu) ==
    LET copy == CopyQueue(qu) IN [out |-> DrainLoop(copy, <<>>).result, q |-> qu]

\* -------------------------------------------------------------------- text
DigitChars == <<"0", "1", "2", "3", "4", "5", "6", "7", "8", "9">>

IsDigit(c) == \E d \in 1..10 : DigitChars[d] = c

DigitValue(c) == (CHOOSE d \in 1..10 : DigitChars[d] = c) - 1

IsSpace(c) == c = " "

\* writeGenericValue(os, value, true) for an int: os << value, decimal digits.
RECURSIVE writeGenericValue(_, _)
writeGenericValue(os, value) ==
    IF value < 10
    THEN Append(os, DigitChars[value + 1])
    ELSE Append(writeGenericValue(os, value \div 10), DigitChars[(value % 10) + 1])

\* WriteLoop writing the separator after every element.
RECURSIVE WriteLoopTrailing(_, _, _, _)
WriteLoopTrailing(os, copy, i, len) ==
    IF i < len
    THEN LET d == dequeue(copy)
         IN  WriteLoopTrailing(writeGenericValue(os, d.ret) \o <<",", " ">>,
                               d.q, i + 1, len)
    ELSE os

\* The loop of operator <<.
RECURSIVE WriteLoop(_, _, _, _)
WriteLoop(os, copy, i, len) ==
    IF i < len
    THEN LET os1 == IF i > 0 THEN os \o <<",", " ">> ELSE os
             d == dequeue(copy)
         IN  WriteLoop(writeGenericValue(os1, d.ret), d.q, i + 1, len)
    ELSE os

\* operator <<(os, queue): the stream's text and the queue as the call leaves it.
StreamOut(os, queue) ==
    LET os0 == Append(os, "{")
        copy == CopyQueue(queue)
        len == size(queue)
    IN  [os |-> Append(WriteLoop(os0, copy, 0, len), "}"), q |-> queue]

\* Queue::toString
toString(qu) ==
    LET r == StreamOut(<<>>, qu) IN [out |-> r.os, q |-> r.q]

\* ------------------------------------------------------------ std::istream
\* An input stream over the text buf, pos characters of it consumed.
NewStream(buf) == [buf |-> buf, pos |-> 0, eof |-> FALSE, fail |-> FALSE]

\* is.good()
Good(is) == ~is.eof /\ ~is.fail

\* The position of the first non-whitespace character at or after pos.
RECURSIVE SkipWs(_, _)
SkipWs(buf, pos) ==
    IF pos < Len(buf) /\ IsSpace(buf[pos + 1]) THEN SkipWs(buf, pos + 1) ELSE pos

\* is >> ch for a char: skips whitespace and takes one character; a stream that
\* is not good, or that ends first, gets failbit and ch keeps its value.
ReadChar(is, ch) ==
    IF ~Good(is)
    THEN [is |-> [is EXCEPT !.fail = TRUE], ch |-> ch]
    ELSE LET p == SkipWs(is.buf, is.pos)
         IN  IF p >= Len(is.buf)
             THEN [is |-> [is EXCEPT !.pos = p, !.eof = TRUE, !.fail = TRUE], ch |-> ch]
             ELSE [is |-> [is EXCEPT !.pos = p + 1], ch |-> is.buf[p + 1]]

\* is.unget(): clears eofbit and steps back one character, unless the stream failed.
Unget(is) ==
    IF is.fail \/ is.pos = 0
    THEN [is EXCEPT !.fail = TRUE, !.eof = FALSE]
    ELSE [is EXCEPT !.pos = is.pos - 1, !.eof = FALSE]

\* The end of the run of digits that starts at pos.
RECURSIVE DigitsEnd(_, _)
DigitsEnd(buf, pos) ==
    IF pos < Len(buf) /\ IsDigit(buf[pos + 1]) THEN DigitsEnd(buf, pos + 1) ELSE pos

\* The number written by the digits buf[from+1 .. to].
RECURSIVE DigitsToInt(_, _, _)
DigitsToInt(buf, from, to) ==
    IF to <= from THEN 0
    ELSE 10 * DigitsToInt(buf, from, to - 1) + DigitValue(buf[to])

\* readGenericValue(is, value) for an int: is >> value. A stream that is not good
\* or has no digits next gets failbit, and value is whatever the local held
\* (junk); a run of digits that reaches the end of the text sets eofbit.
readGenericValue(is, junk) ==
    IF ~Good(is)
    THEN [is |-> [is EXCEPT !.fail = TRUE], value |-> junk]
    ELSE LET p == SkipWs(is.buf, is.pos)
             e == DigitsEnd(is.buf, p)
         IN  IF p >= Len(is.buf)
             THEN [is |-> [is EXCEPT !.pos = p, !.eof = TRUE, !.fail = TRUE],
                   value |-> junk]
             ELSE IF e = p
             THEN [is |-> [is EXCEPT !.pos = p, !.fail = TRUE], value |-> junk]
             ELSE [is |-> [is EXCEPT !.pos = e, !.eof = (e >= Len(is.buf))],
                   value |-> DigitsToInt(is.buf, p, e)]

\* -------------------------------------------------------------- operator >>
\* operator >> about to run on the stream is: pc is "begin", then "loop" at the
\* top of while (true), then "done" (returned) or "error" (threw). cleared:
\* queue.clear() has run; n: the elements enqueued; prior: the queue passed in.
NewParse(is, qu) ==
    [is |-> is, ch |-> NUL, pc |-> "begin", cleared |-> FALSE, n |-> 0, prior |-> qu]

\* No operator >> in progress.
NoParse == [pc |-> "idle"]

\* ParseBegin calling queue.clear() before it looks for the brace.
ParseBeginClearsFirst(qu, st) ==
    LET q1 == clear(qu)
        r1 == ReadChar(st.is, NUL)
    IN  IF r1.ch # "{"
        THEN [q |-> q1, err |-> ParseFormatError,
              ps |-> [st EXCEPT !.is = r1.is, !.ch = r1.ch, !.pc = "error",
                                !.cleared = TRUE]]
        ELSE LET r2 == ReadChar(r1.is, r1.ch)
             IN  IF r2.ch # "}"
                 THEN [q |-> q1, err |-> NoError,
                       ps |-> [st EXCEPT !.is = Unget(r2.is), !.ch = r2.ch,
                                         !.pc = "loop", !.cleared = TRUE]]
                 ELSE [q |-> q1, err |-> NoError,
                       ps |-> [st EXCEPT !.is = r2.is, !.ch = r2.ch,
                                         !.pc = "done", !.cleared = TRUE]]

\* ParseBegin without queue.clear().
ParseBeginNoClear(qu, st) ==
    LET r1 == ReadChar(st.is, NUL)
    IN  IF r1.ch # "{"
        THEN [q |-> qu, err |-> ParseFormatError,
              ps |-> [st EXCEPT !.is = r1.is, !.ch = r1.ch, !.pc = "error"]]
        ELSE LET r2 == ReadChar(r1.is, r1.ch)
             IN  IF r2.ch # "}"
                 THEN [q |-> qu, err |-> NoError,
                       ps |-> [st EXCEPT !.is = Unget(r2.is), !.ch = r2.ch,
                                         !.pc = "loop", !.cleared = TRUE]]
                 ELSE [q |-> qu, err |-> NoError,
                       ps |-> [st EXCEPT !.is = r2.is, !.ch = r2.ch,
                                         !.pc = "done", !.cleared = TRUE]]

\* operator >> up to the top of its loop: [q, ps, err].
ParseBegin(qu, st) ==
    LET r1 == ReadChar(st.is, NUL)
    IN  IF r1.ch # "{"
        THEN [q |-> qu, err |-> ParseFormatError,
              ps |-> [st EXCEPT !.is = r1.is, !.ch = r1.ch, !.pc = "error"]]
        ELSE LET q1 == clear(qu)
                 r2 == ReadChar(r1.is, r1.ch)
             IN  IF r2.ch # "}"
                 THEN [q |-> q1, err |-> NoError,
                       ps |-> [st EXCEPT !.is = Unget(r2.is), !.ch = r2.ch,
                                         !.pc = "loop", !.cleared = TRUE]]
                 ELSE [q |-> q1, err |-> NoError,
                       ps |-> [st EXCEPT !.is = r2.is, !.ch = r2.ch,
                                         !.pc = "done", !.cleared = TRUE]]

\* ParseIter leaving the loop at a comma as at the closing brace.
ParseIterCommaEnds(qu, st, junk) ==
    LET v == readGenericValue(st.is, junk)
        q1 == enqueue(qu, v.value)
        r == ReadChar(v.is, st.ch)
        pc1 == IF r.ch \in {"}", ","} THEN "done" ELSE "error"
    IN  [q |-> q1,
         err |-> IF pc1 = "error" THEN ParseFormatError ELSE NoError,
         value |-> v.value,
         ps |-> [st EXCEPT !.is = r.is, !.ch = r.ch, !.pc = pc1, !.n = st.n + 1]]

\* One iteration of while (true) in operator >>: [q, ps, err, value].
ParseIter(qu, st, junk) ==
    LET v == readGenericValue(st.is, junk)
        q1 == enqueue(qu, v.value)
        r == ReadChar(v.is, st.ch)
        pc1 == IF r.ch = "}" THEN "done" ELSE IF r.ch # "," THEN "error" ELSE "loop"
    IN  [q |-> q1,
         err |-> IF pc1 = "error" THEN ParseFormatError ELSE NoError,
         value |-> v.value,
         ps |-> [st EXCEPT !.is = r.is, !.ch = r.ch, !.pc = pc1, !.n = st.n + 1]]

\* The loop of operator >> run for at most fuel iterations.
RECURSIVE ParseLoop(_, _, _, _)
ParseLoop(qu, st, junk, fuel) ==
    IF st.pc = "loop" /\ fuel > 0
    THEN LET r == ParseIter(qu, st, junk)
         IN  ParseLoop(r.q, r.ps, junk, fuel - 1)
    ELSE [q |-> qu, ps |-> st,
          err |-> IF st.pc = "error" THEN ParseFormatError ELSE NoError]

\* operator >>(is, queue) as one call, followed for as many iterations as the
\* text has characters and one more.
StreamIn(is, qu, junk) ==
    LET b == ParseBegin(qu, NewParse(is, qu))
    IN  ParseLoop(b.q, b.ps, junk, Len(is.buf) + 1)

\* ------------------------------------------------------------ client inputs
\* The sequences over S of length at most n.
SeqsUpTo(S, n) == UNION {[1..k -> S] : k \in 0..n}

\* for (v : s) qu.enqueue(v)
RECURSIVE EnqueueAll(_, _)
EnqueueAll(qu, s) ==
    IF s = <<>> THEN qu ELSE EnqueueAll(enqueue(qu, Head(s)), Tail(s))

\* k times: qu.enqueue(ValueType()); qu.dequeue(). Moves head and tail by k.
RECURSIVE Spin(_, _)
Spin(qu, k) ==
    IF k = 0 THEN qu ELSE Spin(dequeue(enqueue(qu, DefaultValue)).q, k - 1)

\* The values enqueued and not yet dequeued, oldest first.
Pending == SubSeq(enqLog, Len(deqLog) + 1, Len(enqLog))

\* Sequences near s: s, s with its first or last value replaced, s without its
\* first value, s with one more value.
Near(s) ==
    {s, Append(s, DefaultValue)}
        \cup (IF s = <<>> THEN {}
              ELSE {[s EXCEPT ![1] = DefaultValue],
                    [s EXCEPT ![Len(s)] = DefaultValue],
                    Tail(s)})

\* The second operands handed to equals: queues built by enqueue and dequeue
\* alone, holding what q holds or nearly, with head at 0 and with head one
\* slot before the wrap.
Others ==
    { EnqueueAll(Spin(NewQueue, k), s) :
        k \in {0, INITIAL_CAPACITY - 1}, s \in Near(Pending) }

\* No second operand.
NoOther == [passed |-> <<>>, left |-> <<>>]

\* The queues handed to operator >>, by what they hold.
PriorSeqs == {<<>>, <<2>>, <<2, 1>>}

\* The texts handed to operator >>.
Inputs == SeqsUpTo(Alphabet, MaxInput)

\* ----------------------------------------------------------------- actions
Init ==
    /\ q = NewQueue
    /\ enqLog = <<>>
    /\ deqLog = <<>>
    /\ op = "new"
    /\ ret = NoValue
    /\ err = NoError
    /\ out = <<>>
    /\ other = NoOther
    /\ ps = NoParse

\* The call record of an operation that returns a value and produces no text.
Returned(name, o) ==
    /\ op' = name
    /\ ret' = o.ret
    /\ err' = o.err
    /\ out' = <<>>
    /\ other' = NoOther

\* The call record of an operation that produces a text or a container.
Produced(name, o) ==
    /\ op' = name
    /\ ret' = NoValue
    /\ err' = NoError
    /\ out' = o.out
    /\ other' = NoOther

\* q.enqueue(v) for any value v.
Enqueue ==
    /\ Len(enqLog) < MaxEnq
    /\ \E v \in Values :
        /\ q' = enqueue(q, v)
        /\ enqLog' = Append(enqLog, v)
    /\ Returned("enqueue", Outcome(q, NoValue, NoError))
    /\ UNCHANGED <<deqLog, ps>>

\* q.enqueue(v) for the values 1, 2, 3, ... in turn.
EnqueueNext ==
    /\ Len(enqLog) < MaxEnq
    /\ q' = enqueue(q, Len(enqLog) + 1)
    /\ enqLog' = Append(enqLog, Len(enqLog) + 1)
    /\ Returned("enqueue", Outcome(q, NoValue, NoError))
    /\ UNCHANGED <<deqLog, ps>>

\* q.enqueue(v) for the values 1, 2, 3, ... in turn, far enough to grow twice.
EnqueueRing ==
    /\ Len(enqLog) < MaxRing
    /\ q' = enqueue(q, Len(enqLog) + 1)
    /\ enqLog' = Append(enqLog, Len(enqLog) + 1)
    /\ Returned("enqueue", Outcome(q, NoValue, NoError))
    /\ UNCHANGED <<deqLog, ps>>

Dequeue ==
    LET o == dequeue(q)
    IN  /\ q' = o.q
        /\ Returned("dequeue", o)
        /\ deqLog' = IF o.err = NoError THEN Append(deqLog, o.ret) ELSE deqLog
        /\ UNCHANGED <<enqLog, ps>>

Clear ==
    /\ q' = clear(q)
    /\ enqLog' = <<>>
    /\ deqLog' = <<>>
    /\ Returned("clear", Outcome(q, NoValue, NoError))
    /\ UNCHANGED ps

Front ==
    LET o == front(q)
    IN  /\ q' = o.q
        /\ Returned("front", o)
        /\ UNCHANGED <<enqLog, deqLog, ps>>

Back ==
    LET o == back(q)
    IN  /\ q' = o.q
        /\ Returned("back", o)
        /\ UNCHANGED <<enqLog, deqLog, ps>>

Peek ==
    LET o == peek(q)
    IN  /\ q' = o.q
        /\ Returned("peek", o)
        /\ UNCHANGED <<enqLog, deqLog, ps>>

Size ==
    /\ Returned("size", Outcome(q, size(q), NoError))
    /\ UNCHANGED <<q, enqLog, deqLog, ps>>

IsEmpty ==
    /\ Returned("isEmpty", Outcome(q, BoolRet(isEmpty(q)), NoError))
    /\ UNCHANGED <<q, enqLog, deqLog, ps>>

\* q.equals(o) for a second queue o.
Equals ==
    \E o \in Others :
        LET e == equals(q, o, FALSE)
        IN  /\ q' = e.this
            /\ op' = "equals"
            /\ ret' = BoolRet(e.ret)
            /\ err' = NoError
            /\ out' = <<>>
            /\ other' = [passed |-> o, left |-> e.queue2]
            /\ UNCHANGED <<enqLog, deqLog, ps>>

ToString ==
    LET t == toString(q)
    IN  /\ q' = t.q
        /\ Produced("toString", t)
        /\ UNCHANGED <<enqLog, deqLog, ps>>

ToStlQueue ==
    LET t == toStlQueue(q)
    IN  /\ q' = t.q
        /\ Produced("toStlQueue", t)
        /\ UNCHANGED <<enqLog, deqLog, ps>>

ToStlDeque ==
    LET t == toStlDeque(q)
    IN  /\ q' = t.q
        /\ Produced("toStlDeque", t)
        /\ UNCHANGED <<enqLog, deqLog, ps>>

\* os << q; Queue r; is >> r, with is reading what os holds; then r.equals(q).
RoundTrip ==
    LET t == toString(q)
    IN  \E junk \in Uninitialized :
            LET r == StreamIn(NewStream(t.out), NewQueue, junk)
                e == equals(r.q, t.q, FALSE)
            IN  /\ q' = e.queue2
                /\ op' = "roundtrip"
                /\ ret' = BoolRet(r.ps.pc = "done" /\ e.ret)
                /\ err' = r.err
                /\ out' = t.out
                /\ other' = NoOther
                /\ UNCHANGED <<enqLog, deqLog, ps>>

\* The ring buffer under every interleaving of its operations.
Next ==
    \/ Enqueue
    \/ Dequeue
    \/ Clear
    \/ Front
    \/ Back
    \/ Peek
    \/ Size
    \/ IsEmpty

Spec == Init /\ [][Next]_vars

\* Equality, text and export of every queue the operations lead to.
NextObs ==
    \/ EnqueueNext
    \/ Dequeue
    \/ Clear
    \/ Peek
    \/ Size
    \/ IsEmpty
    \/ Equals
    \/ ToString
    \/ ToStlQueue
    \/ ToStlDeque
    \/ RoundTrip

SpecObs == Init /\ [][NextObs]_vars

\* The ring's fields under every interleaving, through two growths.
NextRing ==
    \/ EnqueueRing
    \/ Dequeue
    \/ Clear
    \/ Front
    \/ Back
    \/ Peek

SpecRing == Init /\ [][NextRing]_vars

\* ------------------------------------------------- operator >> step by step
\* is >> queue called with a text and a queue that holds some values.
InitParse ==
    /\ \E s \in PriorSeqs :
        /\ q = EnqueueAll(NewQueue, s)
        /\ enqLog = s
    /\ deqLog = <<>>
    /\ op = "parse"
    /\ ret = NoValue
    /\ err = NoError
    /\ out = <<>>
    /\ other = NoOther
    /\ \E text \in Inputs : ps = NewParse(NewStream(text), q)

ParseOpen ==
    /\ ps.pc = "begin"
    /\ LET b == ParseBegin(q, ps)
       IN  /\ q' = b.q
           /\ ps' = b.ps
           /\ err' = b.err
           /\ enqLog' = IF b.ps.cleared THEN <<>> ELSE enqLog
    /\ UNCHANGED <<deqLog, op, ret, out, other>>

ParseElement ==
    /\ ps.pc = "loop"
    /\ ps.n < MaxParseLoop
    /\ \E junk \in Uninitialized :
        LET r == ParseIter(q, ps, junk)
        IN  /\ q' = r.q
            /\ ps' = r.ps
            /\ err' = r.err
            /\ enqLog' = Append(enqLog, r.value)
    /\ UNCHANGED <<deqLog, op, ret, out, other>>

NextParse == ParseOpen \/ ParseElement

SpecParse == InitParse /\ [][NextParse]_vars

\* ------------------------------------------------------------------ claims
\* The logical sequence of a queue: store[(head + i) mod capacity], i in [0, count).
Logical(qu) ==
    [i \in 1..qu.count |-> VGet(qu.ringBuffer, (qu.head + i - 1) % qu.capacity)]

\* C1: the i-th value dequeue returns is the i-th value enqueued: the values
\* dequeued since the queue was last empty by construction or clear are, in
\* order, the first of the values enqueued since then; n enqueues followed by
\* n dequeues return v1..vn, growth or not.
C1_FifoLaw ==
    /\ Len(deqLog) <= Len(enqLog)
    /\ \A i \in 1..Len(deqLog) : deqLog[i] = enqLog[i]
    /\ (op = "dequeue" /\ err = NoError) => ret = enqLog[Len(deqLog)]

\* Ten enqueues, the tenth growing the store, then ten dequeues.
C1_Witness ==
    /\ Len(enqLog) = INITIAL_CAPACITY
    /\ Len(deqLog) = INITIAL_CAPACITY
    /\ q.capacity = 2 * INITIAL_CAPACITY
    /\ op = "dequeue"
    /\ err = NoError

\* C2: size() is the number of enqueues minus the number of successful
\* dequeues since the last clear or construction (a failed dequeue and a
\* growth change neither), and isEmpty() holds exactly when that is 0.
C2_SizeIsEnqueuesMinusDequeues ==
    LET n == Len(enqLog) - Len(deqLog)
    IN  /\ size(q) = n
        /\ isEmpty(q) <=> (n = 0)
        /\ op = "size" => ret = n
        /\ op = "isEmpty" => ret = BoolRet(n = 0)

\* size() called on a grown queue that has lost values to dequeue.
C2_Witness ==
    /\ op = "size"
    /\ ret = Len(enqLog) - Len(deqLog)
    /\ ret > 0
    /\ Len(deqLog) > 1
    /\ q.head > 0
    /\ q.capacity = 2 * INITIAL_CAPACITY

\* C3: on a queue with count = 0, wherever head stands, front, back, dequeue
\* and peek each fail with EmptyQueueError and leave the queue as it was; and
\* none of them fails on a queue that holds a value.
C3_EmptyQueueFails ==
    /\ q.count = 0 =>
        \A o \in {front(q), back(q), dequeue(q), peek(q)} :
            o.err = EmptyQueueError /\ o.q = q
    /\ q.count > 0 =>
        \A o \in {front(q), back(q), dequeue(q), peek(q)} : o.err = NoError
    /\ err = EmptyQueueError => (op \in {"front", "back", "dequeue", "peek"} /\ q.count = 0)

\* dequeue failing on a queue emptied by dequeues, head away from 0.
C3_Witness ==
    /\ op = "dequeue"
    /\ err = EmptyQueueError
    /\ q.count = 0
    /\ q.head > 0
    /\ q.head = q.tail

\* C4: a.equals(b) is true exactly when a and b have the same size and the
\* same logical sequence, whatever their head, tail and capacity; it gives the
\* same answer with the operands exchanged, is true of a queue and itself (the
\* same object or a copy), and == and != return it and its negation.
C4_EqualsIsLogicalEquality ==
    op = "equals" =>
        LET a == q
            b == other.passed
        IN  /\ (ret = 1) <=> (size(a) = size(b) /\ Logical(a) = Logical(b))
            /\ equals(b, a, FALSE).ret <=> (ret = 1)
            /\ equals(a, a, TRUE).ret
            /\ equals(a, CopyQueue(a), FALSE).ret
            /\ OpEq(a, b, FALSE).ret <=> (ret = 1)
            /\ OpNe(a, b, FALSE).ret <=> (ret # 1)

\* equals answering true for a grown queue with head away from 0 and a fresh
\* queue of the initial capacity with head at 0.
C4_Witness ==
    /\ op = "equals"
    /\ ret = 1
    /\ q.count >= 2
    /\ q.capacity = 2 * INITIAL_CAPACITY
    /\ q.head > 0
    /\ other.passed.capacity = INITIAL_CAPACITY
    /\ other.passed.head = 0

\* The operations that only inspect.
Inspectors ==
    {"equals", "toString", "toStlQueue", "toStlDeque", "peek", "size", "isEmpty",
     "roundtrip"}

\* C5: equals, toString and stream output, toStlQueue, toStlDeque, peek, size
\* and isEmpty leave the queue they are called on, and equals its second
\* operand too, with the head, tail, count, capacity and store they had: what
\* they drain is a copy.
C5_InspectorsLeaveOperands ==
    [][op' \in Inspectors => (q' = q /\ other'.left = other'.passed)]_vars

\* equals having compared, and so drained copies of, two queues of ten values.
C5_Witness ==
    /\ op = "equals"
    /\ ret = 1
    /\ q.count = INITIAL_CAPACITY
    /\ other.left.count = INITIAL_CAPACITY
    /\ other.left = other.passed

\* C6: the text written for a queue, read into a fresh queue, is read without
\* error and gives a queue that equals the one written; so for the empty queue.
C6_RoundTrip ==
    op = "roundtrip" => (ret = 1 /\ err = NoError)

\* The round trip of a grown queue of ten values or more.
C6_Witness ==
    /\ op = "roundtrip"
    /\ ret = 1
    /\ q.count >= INITIAL_CAPACITY
    /\ q.capacity = 2 * INITIAL_CAPACITY

\* The text of the elements s with ", " between them.
RECURSIVE Joined(_)
Joined(s) ==
    IF s = <<>> THEN <<>>
    ELSE IF Len(s) = 1 THEN writeGenericValue(<<>>, s[1])
    ELSE Joined(SubSeq(s, 1, Len(s) - 1)) \o <<",", " ">>
             \o writeGenericValue(<<>>, s[Len(s)])

\* C10: toString and stream output write '{', the elements of the logical
\* sequence in FIFO order with exactly ", " between them and none after the
\* last, then '}'; the empty queue is written {}, and the queue left by
\* enqueue 1, 2, 3 and one dequeue is written {2, 3}.
C10_TextForm ==
    op = "toString" =>
        /\ out = <<"{">> \o Joined(Logical(q)) \o <<"}">>
        /\ q.count = 0 => out = <<"{", "}">>
        /\ Pending = <<2, 3>> => out = <<"{", "2", ",", " ", "3", "}">>

\* toString of a grown queue with head away from 0.
C10_Witness ==
    /\ op = "toString"
    /\ q.count >= 2
    /\ q.head > 0
    /\ q.capacity = 2 * INITIAL_CAPACITY
    /\ Len(out) > 2

\* The tokens of a text from position pos on: '{', '}', ',' and the numbers
\* (unbroken runs of digits), whitespace dropped.
RECURSIVE TokensFrom(_, _)
TokensFrom(buf, pos) ==
    LET p == SkipWs(buf, pos)
        e == DigitsEnd(buf, p)
    IN  IF p >= Len(buf) THEN <<>>
        ELSE IF e > p
        THEN <<[k |-> "num", v |-> DigitsToInt(buf, p, e)]>> \o TokensFrom(buf, e)
        ELSE <<[k |-> buf[p + 1], v |-> 0]>> \o TokensFrom(buf, p + 1)

Tokens(buf) == TokensFrom(buf, 0)

\* t[1..j] is '{' e1 ',' e2 ... ',' e(j/2): an opened list of j/2 elements.
OpenList(t, j) ==
    /\ j >= 2
    /\ j % 2 = 0
    /\ j <= Len(t)
    /\ t[1].k = "{"
    /\ \A i \in 2..j : t[i].k = (IF i % 2 = 0 THEN "num" ELSE ",")

\* The text is {} or {e1, ..., en}.
WellFormed(t) ==
    \/ Len(t) = 2 /\ t[1].k = "{" /\ t[2].k = "}"
    \/ Len(t) >= 3 /\ OpenList(t, Len(t) - 1) /\ t[Len(t)].k = "}"

\* The elements e1..en of a well-formed text.
Elements(t) == [i \in 1..((Len(t) - 1) \div 2) |-> t[2 * i].v]

\* The text on the stream operator >> reads.
ParseTokens == Tokens(ps.is.buf)

\* C7: a text that ends after an element with no closing '}' makes operator >>
\* fail with ParseFormatError: it never returns normally, and once the last
\* element of the text is enqueued it is not at the top of its loop again to
\* read and enqueue more.
C7_UnclosedInputFails ==
    LET t == ParseTokens
    IN  OpenList(t, Len(t)) =>
            /\ ps.pc # "done"
            /\ ps.n <= Len(t) \div 2
            /\ ps.pc = "loop" => ps.n < Len(t) \div 2

\* What operator >> has enqueued so far.
ParsedSoFar == IF ps.cleared THEN enqLog ELSE <<>>

\* The text has no '{' as its first character after whitespace.
MissingOpen(t) == t = <<>> \/ t[1].k # "{"

\* C8 as claimed: whenever operator >> fails, the queue has been cleared and
\* holds nothing of what it held before.
C8_FailureClearsQueue ==
    ps.pc = "error" =>
        /\ err = ParseFormatError
        /\ Logical(q) = ParsedSoFar

\* C8, amended: when operator >> fails after it has read the opening '{', the
\* queue has been cleared and holds only what this call enqueued; when it
\* fails for want of the opening '{', the queue is as it was passed in.
C8_FailureClearsQueueOnceOpened ==
    ps.pc = "error" =>
        /\ err = ParseFormatError
        /\ IF MissingOpen(ParseTokens)
           THEN q = ps.prior /\ ~ps.cleared
           ELSE ps.cleared /\ Logical(q) = ParsedSoFar

\* operator >> failing for want of '{' on a queue that holds values.
C8_Witness ==
    /\ ps.pc = "error"
    /\ MissingOpen(ParseTokens)
    /\ ps.prior.count > 0
    /\ q = ps.prior

\* C9: a well-formed text {e1, ..., en}, whitespace between tokens or not, read
\* into a queue that holds anything, is read without error within n passes of
\* the loop and leaves the queue holding e1..en in that order, size n, {} the
\* empty queue; a text whose first character after whitespace is not '{'
\* fails; and so does a text with something other than ',' or '}' after an
\* element, at that element.
C9_ParseWellFormed ==
    LET t == ParseTokens
    IN  /\ WellFormed(t) =>
            /\ ps.pc # "error"
            /\ err = NoError
            /\ ps.pc = "loop" => ps.n < Len(Elements(t))
            /\ ps.pc = "done" =>
                /\ Logical(q) = Elements(t)
                /\ size(q) = Len(Elements(t))
                /\ isEmpty(q) <=> Len(t) = 2
        /\ (t # <<>> /\ t[1].k # "{" /\ ps.pc # "begin") =>
            (ps.pc = "error" /\ err = ParseFormatError)
        /\ \A j \in 2..(Len(t) - 1) :
            (OpenList(t, j) /\ t[j + 1].k \notin {",", "}"}) =>
                /\ ps.pc # "done"
                /\ ps.n <= j \div 2
                /\ ps.n = j \div 2 => (ps.pc = "error" /\ err = ParseFormatError)

\* {e1,e2} read into a queue that held values.
C9_Witness ==
    /\ ps.pc = "done"
    /\ WellFormed(ParseTokens)
    /\ ps.prior.count > 0
    /\ q.count = 2
    /\ Logical(q) = Elements(ParseTokens)

\* C11: on a queue that holds a value, front() and peek() return the oldest
\* value, the one the next dequeue returns, and back() returns the value
\* enqueued last; also when tail stands at 0, where back reads the slot
\* capacity - 1, and right after the store has grown.
C11_FrontPeekBack ==
    /\ q.count > 0 =>
        /\ front(q).ret = Pending[1]
        /\ peek(q).ret = Pending[1]
        /\ front(q).ret = dequeue(q).ret
        /\ back(q).ret = enqLog[Len(enqLog)]
    /\ (op \in {"front", "peek"} /\ err = NoError) => ret = Pending[1]
    /\ (op = "back" /\ err = NoError) => ret = enqLog[Len(enqLog)]

\* back() on a grown queue whose tail has wrapped to 0: it read slot capacity - 1.
C11_Witness ==
    /\ op = "back"
    /\ err = NoError
    /\ q.capacity = 2 * INITIAL_CAPACITY
    /\ q.tail = 0
    /\ q.head > 0
    /\ ret = VGet(q.ringBuffer, q.capacity - 1)
    /\ ret = 2 * INITIAL_CAPACITY

\* A queue as construction leaves it: capacity 10, head = tail = count = 0 and
\* a store of 10 default-constructed elements.
IsFresh(qu) ==
    /\ qu.capacity = INITIAL_CAPACITY
    /\ qu.capacity = 10
    /\ qu.head = 0
    /\ qu.tail = 0
    /\ qu.count = 0
    /\ Len(qu.ringBuffer) = 10
    /\ \A i \in 1..Len(qu.ringBuffer) : qu.ringBuffer[i] = DefaultValue

\* C12: clear, called in any reachable state, a grown one included, leaves
\* capacity 10, head = tail = count = 0 and a fresh store of length 10, and
\* construction leaves the same state.
C12_ClearResets ==
    /\ IsFresh(clear(q))
    /\ IsFresh(NewQueue)
    /\ clear(q) = NewQueue
    /\ op \in {"new", "clear"} => IsFresh(q)

\* clear called on a queue that has grown twice, holds values and has head
\* and tail away from 0.
C12_Witness ==
    /\ q.capacity = 4 * INITIAL_CAPACITY
    /\ q.count > 0
    /\ q.head > 0
    /\ q.tail > 0
    /\ Len(q.ringBuffer) = 4 * INITIAL_CAPACITY
    /\ IsFresh(clear(q))

\* C13: after any sequence of enqueue, dequeue and clear the sequence
\* store[(head + i) mod capacity], i in [0, count), is the abstract FIFO
\* sequence: the values enqueued since the last clear and not yet dequeued,
\* oldest first; under every interleaving, with head and tail wrapping and
\* with growth while head is not 0.
C13_RingRefinesFifo ==
    /\ q.count = Len(Pending)
    /\ Logical(q) = Pending

\* The store has just grown while the live range wrapped past its end: two
\* values dequeued, then the twelfth enqueue found nine values at head 2.
C13_Witness ==
    /\ op = "enqueue"
    /\ Len(deqLog) = 2
    /\ Len(enqLog) = INITIAL_CAPACITY + 2
    /\ q.capacity = 2 * INITIAL_CAPACITY
    /\ q.head = 0
    /\ q.count = INITIAL_CAPACITY
    /\ Logical(q) = [i \in 1..INITIAL_CAPACITY |-> i + 2]

\* C14: between operations 0 <= count <= capacity - 1, so at least one slot
\* of the store is unused, and the store is capacity slots long.
C14_OneSlotUnused ==
    /\ 0 <= q.count
    /\ q.count <= q.capacity - 1
    /\ Len(q.ringBuffer) = q.capacity
    /\ Len(q.ringBuffer) - q.count >= 1

\* An enqueue has filled a grown store up to its last slot but one, the live
\* range wrapping past the end.
C14_Witness ==
    /\ op = "enqueue"
    /\ q.capacity = 2 * INITIAL_CAPACITY
    /\ q.count = q.capacity - 1
    /\ q.head > 0
    /\ q.tail = q.head - 1

\* C15: between operations tail = (head + count) mod capacity, and head and
\* tail both lie in [0, capacity); after enqueue, dequeue, clear and growth in
\* any order.
C15_TailIsHeadPlusCount ==
    /\ q.tail = (q.head + q.count) % q.capacity
    /\ 0 <= q.head
    /\ q.head < q.capacity
    /\ 0 <= q.tail
    /\ q.tail < q.capacity

\* A grown queue whose live range wraps past the end of the store: tail is
\* below head, and head + count is beyond capacity.
C15_Witness ==
    /\ q.capacity = 2 * INITIAL_CAPACITY
    /\ q.count > 0
    /\ q.tail < q.head
    /\ q.head + q.count > q.capacity
    /\ q.tail = q.head + q.count - q.capacity
    /\ op = "dequeue"

\* C16: a growth event, wherever head stands and also when the live range
\* wraps past the end of the store, leaves count and the logical sequence as
\* they were, doubles capacity exactly, and lays the values out from slot 0:
\* head = 0, tail = count, and the i-th value in slot i of the new store.
C16_GrowthRelinearizes ==
    LET g == expandRingBufferCapacity(q)
    IN  /\ g.count = q.count
        /\ Logical(g) = Logical(q)
        /\ g.capacity = 2 * q.capacity
        /\ Len(g.ringBuffer) = 2 * q.capacity
        /\ g.head = 0
        /\ g.tail = q.count
        /\ \A i \in 0..(q.count - 1) : VGet(g.ringBuffer, i) = Logical(q)[i + 1]
        /\ (op = "enqueue" /\ q.capacity > INITIAL_CAPACITY /\ q.head = 0
                /\ 2 * q.count = q.capacity)
               => \A i \in 0..(q.count - 1) : VGet(q.ringBuffer, i) = Pending[i + 1]

\* Growth is due on a grown store whose live range wraps past its end: the
\* next enqueue grows a queue of capacity 20 holding 19 values from head 2.
C16_Witness ==
    /\ q.capacity = 2 * INITIAL_CAPACITY
    /\ q.count = q.capacity - 1
    /\ q.head = 2
    /\ q.tail = 1
    /\ Len(enqLog) < MaxRing
    /\ expandRingBufferCapacity(q).capacity = 4 * INITIAL_CAPACITY
    /\ expandRingBufferCapacity(q).tail = 2 * INITIAL_CAPACITY - 1

\* Ten values enqueued into a fresh queue, nothing else in between: capacity
\* stays 10 through the first nine, is 20 once the tenth is in, the tenth
\* stored in slot 9 of the grown store; and the ten values dequeued after
\* that come out in the order they went in.
TenIntoFresh ==
    /\ (deqLog = <<>> /\ Len(enqLog) < INITIAL_CAPACITY) => q.capacity = INITIAL_CAPACITY
    /\ (deqLog = <<>> /\ Len(enqLog) = INITIAL_CAPACITY) =>
        /\ q.capacity = 2 * INITIAL_CAPACITY
        /\ q.tail = INITIAL_CAPACITY
        /\ VGet(q.ringBuffer, INITIAL_CAPACITY - 1) = enqLog[INITIAL_CAPACITY]
        /\ Logical(q) = enqLog
    /\ (Len(enqLog) = INITIAL_CAPACITY /\ Len(deqLog) = INITIAL_CAPACITY) => deqLog = enqLog

\* C17: the store grows only in enqueue, and exactly when enqueue finds
\* count >= capacity - 1: no other step raises capacity, an enqueue that finds
\* fewer values keeps it, one that finds that many doubles it. Ten values
\* enqueued into a fresh queue of capacity 10 grow it once, before the tenth is
\* stored and not during the first nine, to capacity 20, and the ten values
\* dequeue in the order they went in.
C17_GrowthOnlyWhenDue ==
    [][/\ q'.capacity > q.capacity =>
            (op' = "enqueue" /\ q.count >= q.capacity - 1)
       /\ (op' = "enqueue" /\ q.count >= q.capacity - 1) =>
            (q'.capacity = 2 * q.capacity /\ q'.head = 0 /\ q'.tail = q.count + 1)
       /\ (op' = "enqueue" /\ q.count < q.capacity - 1) =>
            (q'.capacity = q.capacity /\ q'.head = q.head)
       /\ TenIntoFresh
       /\ TenIntoFresh']_vars

\* Ten values enqueued into a fresh queue, the store grown once, and all ten
\* dequeued in order.
C17_Witness ==
    /\ enqLog = [i \in 1..INITIAL_CAPACITY |-> i]
    /\ deqLog = enqLog
    /\ q.capacity = 2 * INITIAL_CAPACITY
    /\ q.head = INITIAL_CAPACITY
    /\ q.count = 0
    /\ op = "dequeue"
    /\ ret = INITIAL_CAPACITY

\* C18 as stated: once capacity - 1 or more values have been enqueued into a
\* queue of capacity 10, with no more dequeues than that in between, capacity
\* has doubled and the values held read in the order they were enqueued.
C18_DoubledAfterCapacityMinusOne ==
    (Len(enqLog) >= INITIAL_CAPACITY - 1 /\ Len(deqLog) <= INITIAL_CAPACITY - 1) =>
        /\ q.capacity >= 2 * INITIAL_CAPACITY
        /\ Logical(q) = Pending

\* C18, amended: capacity doubles once the values enqueued outnumber the
\* values dequeued by capacity, that is when an enqueue finds capacity - 1
\* values held: that enqueue leaves exactly twice the capacity it found, and a
\* queue that holds 10 values or more has capacity 20 at least, one that
\* holds 20 or more 40 at least. capacity - 1 values enqueued into a fresh
\* queue leave its capacity 10. The values held read in the order they were
\* enqueued throughout.
C18_DoubledOnceCapacityHeld ==
    [][/\ (op' = "enqueue" /\ q.count = q.capacity - 1) =>
            /\ q'.capacity = 2 * q.capacity
            /\ Logical(q') = Append(Logical(q), enqLog'[Len(enqLog')])
       /\ (op' = "enqueue" /\ q.count < q.capacity - 1) => q'.capacity = q.capacity
       /\ Len(Pending') >= INITIAL_CAPACITY => q'.capacity >= 2 * INITIAL_CAPACITY
       /\ Len(Pending') >= 2 * INITIAL_CAPACITY => q'.capacity >= 4 * INITIAL_CAPACITY
       /\ (deqLog' = <<>> /\ Len(enqLog') = INITIAL_CAPACITY - 1) =>
            q'.capacity = INITIAL_CAPACITY
       /\ Logical(q') = Pending']_vars

\* The twentieth value held has just been enqueued into a store of capacity
\* 20 that held nineteen from head 2: capacity is 40 and the twenty values read
\* in order from slot 0.
C18_Witness ==
    /\ op = "enqueue"
    /\ Len(deqLog) = 2
    /\ Len(Pending) = 2 * INITIAL_CAPACITY
    /\ q.capacity = 4 * INITIAL_CAPACITY
    /\ q.head = 0
    /\ Logical(q) = [i \in 1..(2 * INITIAL_CAPACITY) |-> i + 2]

\* C19: capacity is 10 * 2^k for some k >= 0 in every state; dequeue changes
\* neither capacity nor the store, so the store never shrinks on removal;
\* enqueue keeps capacity or doubles it; and capacity goes down only in clear,
\* always to 10.
C19_CapacityTenTimesPowerOfTwo ==
    [][/\ \E k \in 0..MaxRing : q.capacity = 10 * 2^k
       /\ \E k \in 0..MaxRing : q'.capacity = 10 * 2^k
       /\ op' = "dequeue" => (q'.capacity = q.capacity /\ q'.ringBuffer = q.ringBuffer)
       /\ op' = "enqueue" => (q'.capacity = q.capacity \/ q'.capacity = 2 * q.capacity)
       /\ q'.capacity < q.capacity => (op' = "clear" /\ q'.capacity = 10)
       /\ op' = "clear" => q'.capacity = 10]_vars

\* The last of twenty values has been dequeued from a store that grew twice:
\* the queue is empty and its store still 40 slots long.
C19_Witness ==
    /\ op = "dequeue"
    /\ err = NoError
    /\ q.count = 0
    /\ q.capacity = 4 * INITIAL_CAPACITY
    /\ Len(q.ringBuffer) = 4 * INITIAL_CAPACITY
    /\ Len(deqLog) >= 2 * INITIAL_CAPACITY

====
